---- MODULE Spec2Model ----
(***************************************************************************)
(* parse_dat / dat_to_json of src/src/dat_to_json.py: the line-oriented    *)
(* parser of the AMPL-style .dat dialect.  A Python str is modelled as a    *)
(* sequence of one-character strings, so that every string operation the   *)
(* parser uses (split, strip, replace, startswith, in, the scalar regular  *)
(* expression, float()) is computed and not assumed.                       *)
(***************************************************************************)
EXTENDS Integers, Sequences, FiniteSets, TLC

\* ------------------------------------------------------------------------
\* Characters
\* ------------------------------------------------------------------------
SP == " "
TAB == "\t"
HASH == "#"
SEMI == ";"
COLON == ":"
EQ == "="
ASSIGN == <<":", "=">>
PARAM == <<"p", "a", "r", "a", "m">>
SET == <<"s", "e", "t">>

DigitSeq == <<"0", "1", "2", "3", "4", "5", "6", "7", "8", "9">>

UpperSeq ==
    <<"A", "B", "C", "D", "E", "F", "G", "H", "I", "J", "K", "L", "M",
      "N", "O", "P", "Q", "R", "S", "T", "U", "V", "W", "X", "Y", "Z">>

LowerSeq ==
    <<"a", "b", "c", "d", "e", "f", "g", "h", "i", "j", "k", "l", "m",
      "n", "o", "p", "q", "r", "s", "t", "u", "v", "w", "x", "y", "z">>

Digits == {DigitSeq[k] : k \in 1..Len(DigitSeq)}

Letters ==
    {UpperSeq[k] : k \in 1..Len(UpperSeq)} \cup
    {LowerSeq[k] : k \in 1..Len(LowerSeq)}

\* str.isspace() restricted to the characters a physical line can hold here
IsSpace(c) == c \in {SP, TAB}

\* \w of the re module
IsWordChar(c) == c \in Letters \cup Digits \cup {"_"}

\* ------------------------------------------------------------------------
\* Python str and list operations
\* ------------------------------------------------------------------------
RECURSIVE LStrip(_)
LStrip(s) ==
    IF s = <<>> THEN s
    ELSE IF IsSpace(Head(s)) THEN LStrip(Tail(s)) ELSE s

RECURSIVE RStrip(_)
RStrip(s) ==
    IF s = <<>> THEN s
    ELSE IF IsSpace(s[Len(s)]) THEN RStrip(SubSeq(s, 1, Len(s) - 1)) ELSE s

\* s.strip()
Strip(s) == RStrip(LStrip(s))

\* the least element of a set of positions, 0 when it is empty
First(P) == IF P = {} THEN 0 ELSE CHOOSE p \in P : \A q \in P : p <= q

\* s.find(sub) + 1: the first position where sub occurs in s, 0 when none
Find(s, sub) ==
    First({p \in 1..(Len(s) - Len(sub) + 1) :
              SubSeq(s, p, p + Len(sub) - 1) = sub})

\* sub in s
Contains(s, sub) == Find(s, sub) # 0

\* s.startswith(prefix)
StartsWith(s, prefix) ==
    Len(s) >= Len(prefix) /\ SubSeq(s, 1, Len(prefix)) = prefix

\* s.split(sep, 1)[0]
Before(s, sep) ==
    IF Contains(s, sep) THEN SubSeq(s, 1, Find(s, sep) - 1) ELSE s

\* s.split(sep, 1)[1], and "" when s does not hold sep
After(s, sep) ==
    IF Contains(s, sep) THEN SubSeq(s, Find(s, sep) + Len(sep), Len(s))
    ELSE <<>>

\* s.replace(old, new): non-overlapping occurrences, left to right
RECURSIVE Replace(_, _, _)
Replace(s, old, new) ==
    IF Len(s) < Len(old) THEN s
    ELSE IF SubSeq(s, 1, Len(old)) = old
         THEN new \o Replace(SubSeq(s, Len(old) + 1, Len(s)), old, new)
         ELSE <<Head(s)>> \o Replace(Tail(s), old, new)

\* the length of the longest whitespace-free prefix of s
RECURSIVE TokenLen(_)
TokenLen(s) ==
    IF s = <<>> \/ IsSpace(Head(s)) THEN 0 ELSE 1 + TokenLen(Tail(s))

\* s.split(): the maximal runs of non-whitespace characters, in order
RECURSIVE Split(_)
RECURSIVE SplitFrom(_)
SplitFrom(t) ==
    IF t = <<>> THEN <<>>
    ELSE <<SubSeq(t, 1, TokenLen(t))>>
             \o Split(SubSeq(t, TokenLen(t) + 1, Len(t)))

Split(s) == SplitFrom(LStrip(s))

\* sep.join(parts)
RECURSIVE Join(_, _)
Join(parts, sep) ==
    IF parts = <<>> THEN <<>>
    ELSE IF Len(parts) = 1 THEN parts[1]
         ELSE parts[1] \o sep \o Join(Tail(parts), sep)

\* seq.index(x) + 1 for a list, 0 when x is not in it
IndexOf(seq, x) == First({p \in 1..Len(seq) : seq[p] = x})

\* ------------------------------------------------------------------------
\* lines 27-29
\* ------------------------------------------------------------------------
StripComments(ln) == Strip(Before(ln, <<HASH>>))

\* ------------------------------------------------------------------------
\* Numbers.  A float is the record [k, neg, m, e]: k = "fin" is the decimal
\* value (-1)^neg * m * 10^e with m free of trailing zeros, so that two
\* spellings of one value are one record; k = "inf" and k = "nan" are the
\* special values float() also accepts.
\* ------------------------------------------------------------------------
Lower(c) == IF IndexOf(UpperSeq, c) = 0 THEN c ELSE LowerSeq[IndexOf(UpperSeq, c)]

\* s.lower()
LowerStr(s) == [k \in 1..Len(s) |-> Lower(s[k])]

DigitVal(c) == IndexOf(DigitSeq, c) - 1

IsDigit(c) == c \in Digits

RECURSIVE DecVal(_)
DecVal(ds) ==
    IF ds = <<>> THEN 0
    ELSE 10 * DecVal(SubSeq(ds, 1, Len(ds) - 1)) + DigitVal(ds[Len(ds)])

AllDigits(s) == \A k \in 1..Len(s) : s[k] \in Digits

\* digitpart of the float() grammar: digits, single underscores between them
DigitPart(s) ==
    /\ s # <<>>
    /\ \A k \in 1..Len(s) : s[k] \in Digits \cup {"_"}
    /\ s[1] \in Digits
    /\ s[Len(s)] \in Digits
    /\ \A k \in 1..(Len(s) - 1) : ~(s[k] = "_" /\ s[k + 1] = "_")

HasSign(s) == s # <<>> /\ s[1] \in {"+", "-"}

IsNeg(s) == s # <<>> /\ s[1] = "-"

Unsigned(s) == IF HasSign(s) THEN Tail(s) ELSE s

RECURSIVE Normal(_, _, _)
Normal(neg, m, e) ==
    IF m = 0 THEN [k |-> "fin", neg |-> neg, m |-> 0, e |-> 0]
    ELSE IF m % 10 = 0 THEN Normal(neg, m \div 10, e + 1)
         ELSE [k |-> "fin", neg |-> neg, m |-> m, e |-> e]

NoFloat == [ok |-> FALSE, val |-> [k |-> "none", neg |-> FALSE, m |-> 0, e |-> 0]]

Signed(neg, x) == IF neg THEN 0 - x ELSE x

\* the value of intpart "." fracpart "e" expo
Decimal(neg, ip, fp, expo) ==
    Normal(neg,
           DecVal(SelectSeq(ip, IsDigit) \o SelectSeq(fp, IsDigit)),
           Signed(IsNeg(expo), DecVal(SelectSeq(Unsigned(expo), IsDigit)))
               - Len(SelectSeq(fp, IsDigit)))

\* [digitpart] "." digitpart | digitpart ["."], then an optional exponent
FloatNumber(neg, ip, fp, hasExp, expo) ==
    IF /\ ip = <<>> \/ DigitPart(ip)
       /\ fp = <<>> \/ DigitPart(fp)
       /\ ip # <<>> \/ fp # <<>>
       /\ ~hasExp \/ DigitPart(Unsigned(expo))
    THEN [ok |-> TRUE, val |-> Decimal(neg, ip, fp, expo)]
    ELSE NoFloat

FloatMantissa(neg, mant, hasExp, expo) ==
    FloatNumber(neg, Before(mant, <<".">>), After(mant, <<".">>), hasExp, expo)

FloatBody(neg, body) ==
    IF body \in {<<"i", "n", "f">>, <<"i", "n", "f", "i", "n", "i", "t", "y">>}
    THEN [ok |-> TRUE, val |-> [k |-> "inf", neg |-> neg, m |-> 0, e |-> 0]]
    ELSE IF body = <<"n", "a", "n">>
    THEN [ok |-> TRUE, val |-> [k |-> "nan", neg |-> FALSE, m |-> 0, e |-> 0]]
    ELSE FloatMantissa(neg, Before(body, <<"e">>), Contains(body, <<"e">>),
                       After(body, <<"e">>))

FloatStripped(t) == FloatBody(IsNeg(t), LowerStr(Unsigned(t)))

\* float(s) of Python 3 (lines 63, 120, 159): ok = FALSE stands for ValueError
PyFloat(s) == FloatStripped(Strip(s))

\* (?:\d+(?:\.\d*)?|\.\d+)(?:[eE][+-]?\d+)?
NumReNumber(hasDot, ip, fp, hasExp, expo) ==
    /\ AllDigits(ip) /\ AllDigits(fp)
    /\ ip # <<>> \/ (hasDot /\ fp # <<>>)
    /\ ~hasExp \/ (Unsigned(expo) # <<>> /\ AllDigits(Unsigned(expo)))

NumReMantissa(mant, hasExp, expo) ==
    NumReNumber(Contains(mant, <<".">>), Before(mant, <<".">>),
                After(mant, <<".">>), hasExp, expo)

NumReBody(body, low) ==
    NumReMantissa(SubSeq(body, 1, Len(Before(low, <<"e">>))),
                  Contains(low, <<"e">>),
                  SubSeq(body, Len(Before(low, <<"e">>)) + 2, Len(body)))

\* line 24: _NUM_RE.match(s) is not None
NUM_RE(s) == NumReBody(Unsigned(s), LowerStr(Unsigned(s)))

\* ------------------------------------------------------------------------
\* Dictionaries: a dict is the sequence of its <<key, value>> items in
\* insertion order, each key once.
\* ------------------------------------------------------------------------
EmptyDict == <<>>

\* d.keys()
Keys(d) == {d[p][1] : p \in 1..Len(d)}

\* the position of key's item in d, 0 when d has no such key
KeyPos(d, key) == First({p \in 1..Len(d) : d[p][1] = key})

\* d[key], for a key of d
Get(d, key) == d[KeyPos(d, key)][2]

\* d[key] = v: a new key is appended, an old one keeps its place
Put(d, key, v) ==
    IF KeyPos(d, key) = 0 THEN Append(d, <<key, v>>)
    ELSE [d EXCEPT ![KeyPos(d, key)] = <<key, v>>]

\* ------------------------------------------------------------------------
\* line 58: re.match(r"^param\s+([A-Za-z_]\w*)\s*=\s*([^;]+)\s*;\s*$", line)
\* ------------------------------------------------------------------------
RECURSIVE WordLen(_)
WordLen(s) ==
    IF s = <<>> \/ ~IsWordChar(Head(s)) THEN 0 ELSE 1 + WordLen(Tail(s))

NoMatch == [ok |-> FALSE, name |-> <<>>, group2 |-> <<>>]

\* ([^;]+)\s*;\s*$ on the text after "=", f the position of its first ";"
ScalarRhs(name, rest, f) ==
    IF f >= 2 /\ Strip(SubSeq(rest, f + 1, Len(rest))) = <<>>
    THEN [ok |-> TRUE, name |-> name, group2 |-> SubSeq(rest, 1, f - 1)]
    ELSE NoMatch

\* \s*= on the text c after the name
ScalarEq(name, c) ==
    IF c # <<>> /\ c[1] = EQ
    THEN ScalarRhs(name, Tail(c), Find(Tail(c), <<SEMI>>))
    ELSE NoMatch

\* \s+([A-Za-z_]\w*) on the text a after "param", b its left-stripped form
ScalarName(a, b) ==
    IF Len(b) < Len(a) /\ b # <<>> /\ b[1] \in Letters \cup {"_"}
    THEN ScalarEq(SubSeq(b, 1, WordLen(b)),
                  LStrip(SubSeq(b, WordLen(b) + 1, Len(b))))
    ELSE NoMatch

m_scalar(ln) ==
    IF StartsWith(ln, PARAM)
    THEN ScalarName(SubSeq(ln, Len(PARAM) + 1, Len(ln)),
                    LStrip(SubSeq(ln, Len(PARAM) + 1, Len(ln))))
    ELSE NoMatch

\* lines 62-65: try float(val_str), except ValueError keep val_str
Coerce(val_str, val) ==
    IF val.ok THEN [t |-> "float", v |-> val.val]
    ELSE [t |-> "str", v |-> val_str]

\* lines 61-65: the value a scalar statement registers
ScalarValue(group2) == Coerce(Strip(group2), PyFloat(Strip(group2)))

\* ------------------------------------------------------------------------
\* lines 73-77, 97-101, 128-132: the block of the statement that starts at
\* cursor i (0-based, as in the code; raw_lines[i] of the code is lines[i+1])
\* ------------------------------------------------------------------------
\* ";" not in block[-1]
Open(lastln) == ~Contains(lastln, <<SEMI>>)

RECURSIVE Collect(_, _, _)
Collect(lines, j, lastln) ==
    IF j < Len(lines) /\ Open(lastln)
    THEN Collect(lines, j + 1, lines[j + 1])
    ELSE j

\* the cursor after the block
BlockEnd(lines, c) == Collect(lines, c + 1, StripComments(lines[c + 1]))

\* block: the stripped first line, then the raw lines that follow it
Block(lines, c) ==
    <<StripComments(lines[c + 1])>> \o SubSeq(lines, c + 2, BlockEnd(lines, c))

\* ------------------------------------------------------------------------
\* lines 79-91: set NAME := ... ;
\* ------------------------------------------------------------------------
\* the lines of the block glued together with no separator
Joined_NoSpace(block) ==
    Join([k \in 1..Len(block) |-> StripComments(block[k])], <<>>)

\* line 80
Joined(block) ==
    Join([k \in 1..Len(block) |-> StripComments(block[k])], <<SP>>)

\* lines 82-83
SetTokens(block) ==
    Split(Replace(Replace(Joined(block), ASSIGN, <<SP>> \o ASSIGN \o <<SP>>),
                  <<SEMI>>, <<SP, SEMI, SP>>))

\* line 91: tokens[start:end], start = tokens.index(":=") + 1, end = tokens.index(";")
SetSlice(tokens) ==
    SubSeq(tokens, IndexOf(tokens, ASSIGN) + 1, IndexOf(tokens, <<SEMI>>) - 1)

\* lines 85-91.  err: "malformed" is the ValueError raised on line 88,
\* "index" the ValueError of tokens.index(";") on line 90
SetResult(tokens) ==
    IF IndexOf(tokens, ASSIGN) = 0
    THEN [err |-> "malformed", name |-> tokens[2], elems |-> <<>>]
    ELSE IF IndexOf(tokens, <<SEMI>>) = 0
    THEN [err |-> "index", name |-> tokens[2], elems |-> <<>>]
    ELSE [err |-> "none", name |-> tokens[2], elems |-> SetSlice(tokens)]

ParseSet(block) == SetResult(SetTokens(block))

\* ------------------------------------------------------------------------
\* lines 104-122: param NAME := key value ... ;
\* ------------------------------------------------------------------------
\* line 105
Name1D(first) == Strip(Before(Split(first)[2], ASSIGN))

\* lines 115-116 and 149-150
Unsemi(ln) ==
    IF Contains(ln, <<SEMI>>) THEN Replace(ln, <<SEMI>>, <<SP>>) ELSE ln

\* lines 112-117 and 146-151: the tokens of a data line
Parts(rawln) == Split(Replace(Unsemi(StripComments(rawln)), <<TAB>>, <<SP>>))

\* line 118
HasPair(parts) == Len(parts) >= 2

\* lines 111-121; err stands for the ValueError of float() on line 120
RECURSIVE Mapping1D(_, _)
RECURSIVE Store1D(_, _, _, _)
RECURSIVE Line1D(_, _, _)

\* a pair whose value is no number is passed over instead of raising
Store1D_Skip(k, v, rest, mapping) ==
    IF v.ok THEN Mapping1D(rest, Put(mapping, k, v.val))
    ELSE Mapping1D(rest, mapping)

\* a key that is already present keeps its first value
Store1D_KeepFirst(k, v, rest, mapping) ==
    IF ~v.ok THEN [err |-> TRUE, mapping |-> EmptyDict]
    ELSE IF k \in Keys(mapping) THEN Mapping1D(rest, mapping)
    ELSE Mapping1D(rest, Put(mapping, k, v.val))

\* lines 119-121: k = parts[0]; v = float(parts[1]); mapping[k] = v
Store1D(k, v, rest, mapping) ==
    IF v.ok THEN Mapping1D(rest, Put(mapping, k, v.val))
    ELSE [err |-> TRUE, mapping |-> EmptyDict]

\* lines 112-121 for one line of block[1:]
Line1D(parts, rest, mapping) ==
    IF HasPair(parts)
    THEN Store1D(parts[1], PyFloat(parts[2]), rest, mapping)
    ELSE Mapping1D(rest, mapping)

Mapping1D(lines, mapping) ==
    IF lines = <<>> THEN [err |-> FALSE, mapping |-> mapping]
    ELSE Line1D(Parts(Head(lines)), Tail(lines), mapping)

Result1D(name, r) == [err |-> r.err, name |-> name, mapping |-> r.mapping]

Parse1D(block) ==
    Result1D(Name1D(block[1]), Mapping1D(Tail(block), EmptyDict))

\* ------------------------------------------------------------------------
\* lines 134-161: param NAME: col1 col2 ... := rows ... ;
\* ------------------------------------------------------------------------
\* line 137: header[len("param "):]
AfterParam(header) == SubSeq(header, Len(PARAM) + 2, Len(header))

\* lines 138-139
Name2D(header) == Strip(Before(AfterParam(header), <<COLON>>))

\* lines 138-141
Cols(header) ==
    Split(Replace(Strip(Before(After(AfterParam(header), <<COLON>>), ASSIGN)),
                  <<TAB>>, <<SP>>))

Min(a, b) == IF a < b THEN a ELSE b

\* every token after the row identifier, with no truncation
Vals_All(parts, cols) == Tail(parts)

\* line 155: parts[1:1+len(cols)]
Vals(parts, cols) == SubSeq(parts, 2, Min(Len(parts), 1 + Len(cols)))

\* line 156, negated: the row is kept
RowAccepted(vals, cols) == Len(vals) = Len(cols)

\* float(vals[j]) for each j
Floats(vals) == [j \in 1..Len(vals) |-> PyFloat(vals[j])]

\* line 159: {cols[j]: float(vals[j]) for j in range(len(cols))}
RECURSIVE RowItems(_, _, _, _)
RowItems(cols, fl, j, d) ==
    IF j > Len(cols) THEN d
    ELSE RowItems(cols, fl, j + 1, Put(d, cols[j], fl[j].val))

RowDict(cols, fl) == RowItems(cols, fl, 1, EmptyDict)

\* lines 145-159; err stands for the ValueError of float() on line 159
RECURSIVE Table2D(_, _, _)
RECURSIVE Row2D(_, _, _, _, _)
RECURSIVE Line2D(_, _, _, _)

\* line 159
Row2D(row, fl, cols, rest, table) ==
    IF \A j \in 1..Len(fl) : fl[j].ok
    THEN Table2D(rest, cols, Put(table, row, RowDict(cols, fl)))
    ELSE [err |-> TRUE, table |-> EmptyDict]

\* a row of the wrong shape is an error instead of being passed over
Line2D_Strict(parts, cols, rest, table) ==
    IF parts = <<>> THEN Table2D(rest, cols, table)
    ELSE IF ~RowAccepted(Vals(parts, cols), cols)
         THEN [err |-> TRUE, table |-> EmptyDict]
         ELSE Row2D(parts[1], Floats(Vals(parts, cols)), cols, rest, table)

\* lines 146-159 for one line of block[1:]
Line2D(parts, cols, rest, table) ==
    IF parts = <<>> THEN Table2D(rest, cols, table)
    ELSE IF ~RowAccepted(Vals(parts, cols), cols)
         THEN Table2D(rest, cols, table)
         ELSE Row2D(parts[1], Floats(Vals(parts, cols)), cols, rest, table)

Table2D(lines, cols, table) ==
    IF lines = <<>> THEN [err |-> FALSE, table |-> table]
    ELSE Line2D(Parts(Head(lines)), cols, Tail(lines), table)

Result2D(name, r) == [err |-> r.err, name |-> name, table |-> r.table]

Parse2D(block) ==
    Result2D(Name2D(block[1]), Table2D(Tail(block), Cols(block[1]), EmptyDict))

\* ------------------------------------------------------------------------
\* Input files: every sequence of 1..MaxLines physical lines drawn from one
\* of the pools below (what read_text(...).splitlines() returns on line 43)
\* ------------------------------------------------------------------------
MaxLines == 4

\* set S := a
L_set_open ==
    <<"s", "e", "t", " ", "S", " ", ":", "=", " ", "a">>

\* b c
L_set_mid ==
    <<"b", " ", "c">>

\* d ;
L_set_close ==
    <<"d", " ", ";">>

\* set S:=a b;
L_set_tight ==
    <<"s", "e", "t", " ", "S", ":", "=", "a", " ", "b", ";">>

\* set BAD a b ;
L_set_bad ==
    <<"s", "e", "t", " ", "B", "A", "D", " ", "a", " ", "b", " ", ";">>

\* c # x; y
L_set_cmt ==
    <<"c", " ", "#", " ", "x", ";", " ", "y">>

\* (an empty line)
L_blank ==
    <<>>

SetLines ==
    {L_set_open, L_set_mid, L_set_close, L_set_tight, L_set_bad, L_set_cmt, L_blank}

\* param P :=
L_p_head ==
    <<"p", "a", "r", "a", "m", " ", "P", " ", ":", "=">>

\* a 1
L_p_a1 ==
    <<"a", " ", "1">>

\* a 2 ;
L_p_a2 ==
    <<"a", " ", "2", " ", ";">>

\* b 3 a 4
L_p_two ==
    <<"b", " ", "3", " ", "a", " ", "4">>

\* param P := a 1 b 2 ;
L_p_one ==
    <<"p", "a", "r", "a", "m", " ", "P", " ", ":", "=", " ", "a", " ", "1",
      " ", "b", " ", "2", " ", ";">>

\* b x ;
L_p_bad ==
    <<"b", " ", "x", " ", ";">>

\* a 5 # c;
L_p_cmt ==
    <<"a", " ", "5", " ", "#", " ", "c", ";">>

\* b
L_p_short ==
    <<"b">>

OneDLines ==
    {L_p_head, L_p_a1, L_p_a2, L_p_two, L_p_one, L_p_bad, L_p_cmt, L_p_short}

\* param DemandaPPA: C1 C2 :=
L_t_head ==
    <<"p", "a", "r", "a", "m", " ", "D", "e", "m", "a", "n", "d", "a", "P",
      "P", "A", ":", " ", "C", "1", " ", "C", "2", " ", ":", "=">>

\* H01 10 20
L_t_h01 ==
    <<"H", "0", "1", " ", "1", "0", " ", "2", "0">>

\* H02 5
L_t_h02 ==
    <<"H", "0", "2", " ", "5">>

\* H03 7 8 ;
L_t_h03 ==
    <<"H", "0", "3", " ", "7", " ", "8", " ", ";">>

\* H02 1 2 3
L_t_long ==
    <<"H", "0", "2", " ", "1", " ", "2", " ", "3">>

\* H01 x 1
L_t_bad ==
    <<"H", "0", "1", " ", "x", " ", "1">>

\* H03 y
L_t_shortbad ==
    <<"H", "0", "3", " ", "y">>

\* H01<TAB>4 6 # end;
L_t_cmt ==
    <<"H", "0", "1", "\t", "4", " ", "6", " ", "#", " ", "e", "n", "d", ";">>

TwoDLines ==
    {L_t_head, L_t_h01, L_t_h02, L_t_h03, L_t_long, L_t_bad, L_t_shortbad, L_t_cmt}

\* param HedgeRate=0.8;
L_s_hedge ==
    <<"p", "a", "r", "a", "m", " ", "H", "e", "d", "g", "e", "R", "a", "t",
      "e", "=", "0", ".", "8", ";">>

\* param X = 1e1 ;
L_s_num ==
    <<"p", "a", "r", "a", "m", " ", "X", " ", "=", " ", "1", "e", "1", " ",
      ";">>

\* param X = base case ;
L_s_label ==
    <<"p", "a", "r", "a", "m", " ", "X", " ", "=", " ", "b", "a", "s", "e",
      " ", "c", "a", "s", "e", " ", ";">>

\* param X = nan;
L_s_nan ==
    <<"p", "a", "r", "a", "m", " ", "X", " ", "=", " ", "n", "a", "n", ";">>

\* param Y = 1_0;
L_s_under ==
    <<"p", "a", "r", "a", "m", " ", "Y", " ", "=", " ", "1", "_", "0", ";">>

\* param Y = ;
L_s_empty ==
    <<"p", "a", "r", "a", "m", " ", "Y", " ", "=", " ", ";">>

\* param X = 10.0; # ten
L_s_cmt ==
    <<"p", "a", "r", "a", "m", " ", "X", " ", "=", " ", "1", "0", ".", "0",
      ";", " ", "#", " ", "t", "e", "n">>

ScalarLines ==
    {L_s_hedge, L_s_num, L_s_label, L_s_nan, L_s_under, L_s_empty, L_s_cmt}

\* set HORAS := H01 H02 H03 ;
L_m_set ==
    <<"s", "e", "t", " ", "H", "O", "R", "A", "S", " ", ":", "=", " ", "H",
      "0", "1", " ", "H", "0", "2", " ", "H", "0", "3", " ", ";">>

\* param Z = .5;
L_m_scalar ==
    <<"p", "a", "r", "a", "m", " ", "Z", " ", "=", " ", ".", "5", ";">>

\* set BAD H1 H2 ;
L_m_bad ==
    <<"s", "e", "t", " ", "B", "A", "D", " ", "H", "1", " ", "H", "2", " ",
      ";">>

\* var y;
L_m_var ==
    <<"v", "a", "r", " ", "y", ";">>

\* # note
L_m_cmt ==
    <<"#", " ", "n", "o", "t", "e">>

\* param Q:= k 2;
L_m_p ==
    <<"p", "a", "r", "a", "m", " ", "Q", ":", "=", " ", "k", " ", "2", ";">>

\* k inf ;
L_m_k ==
    <<"k", " ", "i", "n", "f", " ", ";">>

\* param T : c :=
L_m_t ==
    <<"p", "a", "r", "a", "m", " ", "T", " ", ":", " ", "c", " ", ":", "=">>

MixedLines ==
    {L_m_set, L_m_scalar, L_m_bad, L_m_var, L_m_cmt, L_m_p, L_m_k, L_m_t}

Pools == {SetLines, OneDLines, TwoDLines, ScalarLines, MixedLines}

Files ==
    UNION {UNION {[1..k -> pool] : k \in 1..MaxLines} : pool \in Pools}

\* ------------------------------------------------------------------------
\* State of one call of dat_to_json(dat_path, json_path)
\* ------------------------------------------------------------------------
VARIABLES
    raw_lines,      \* line 43: the physical lines of the file
    i,              \* line 48: the line cursor, 0-based
    sets,           \* line 45
    params,         \* line 46
    status,         \* "run": in the loop of line 51; "returned": line 167;
                    \* "raised": an exception left parse_dat
    last,           \* the loop iteration just made: its branch, the cursor it
                    \* started at, and the error that ended it
    json_written    \* line 172: json_path.write_text(...) has been executed

vars == <<raw_lines, i, sets, params, status, last, json_written>>

n == Len(raw_lines)

Init ==
    /\ raw_lines \in Files
    /\ i = 0
    /\ sets = EmptyDict
    /\ params = EmptyDict
    /\ status = "run"
    /\ last = [kind |-> "start", start |-> 0, err |-> "none"]
    /\ json_written = FALSE

\* line 71
IsSet(ln) == StartsWith(ln, SET \o <<SP>>)

\* line 95
Is1D(ln) ==
    /\ StartsWith(ln, PARAM \o <<SP>>)
    /\ Contains(ln, ASSIGN)
    /\ ~Contains(Before(ln, ASSIGN), <<COLON>>)

\* line 126
Is2D(ln) ==
    /\ StartsWith(ln, PARAM \o <<SP>>)
    /\ Contains(ln, ASSIGN)
    /\ Contains(Before(ln, ASSIGN), <<COLON>>)

\* lines 52-165: the branch the loop body takes on the stripped line ln
Branch(ln) ==
    IF ln = <<>> THEN "blank"
    ELSE IF m_scalar(ln).ok THEN "scalar"
    ELSE IF IsSet(ln) THEN "set"
    ELSE IF Is1D(ln) THEN "1d"
    ELSE IF Is2D(ln) THEN "2d"
    ELSE "unknown"

\* line 51 and the branch taken at the cursor
At(kind) ==
    /\ status = "run"
    /\ i < n
    /\ Branch(StripComments(raw_lines[i + 1])) = kind

\* a loop step that leaves the cursor where it is
Advance_Stay(c) == c

\* lines 54, 67, 165: i += 1
Advance(c) == c + 1

Did(kind, err) == [kind |-> kind, start |-> i, err |-> err]

\* lines 53-55
SkipBlank ==
    /\ At("blank")
    /\ i' = Advance(i)
    /\ last' = Did("blank", "none")
    /\ UNCHANGED <<raw_lines, sets, params, status, json_written>>

\* lines 60-66
StoreScalar(m) == params' = Put(params, m.name, ScalarValue(m.group2))

\* lines 58-68
Scalar ==
    /\ At("scalar")
    /\ StoreScalar(m_scalar(StripComments(raw_lines[i + 1])))
    /\ i' = Advance(i)
    /\ last' = Did("scalar", "none")
    /\ UNCHANGED <<raw_lines, sets, status, json_written>>

\* lines 85-91
StoreSet(r) ==
    /\ last' = Did("set", r.err)
    /\ IF r.err = "none"
       THEN sets' = Put(sets, r.name, r.elems) /\ UNCHANGED status
       ELSE status' = "raised" /\ UNCHANGED sets

\* lines 71-92
SetBlock ==
    /\ At("set")
    /\ i' = BlockEnd(raw_lines, i)
    /\ StoreSet(ParseSet(Block(raw_lines, i)))
    /\ UNCHANGED <<raw_lines, params, json_written>>

\* lines 110-122
Store1DParam(r) ==
    IF r.err
    THEN /\ status' = "raised"
         /\ last' = Did("1d", "float")
         /\ UNCHANGED params
    ELSE /\ params' = Put(params, r.name, [t |-> "map", v |-> r.mapping])
         /\ last' = Did("1d", "none")
         /\ UNCHANGED status

\* lines 95-123
Param1D ==
    /\ At("1d")
    /\ i' = BlockEnd(raw_lines, i)
    /\ Store1DParam(Parse1D(Block(raw_lines, i)))
    /\ UNCHANGED <<raw_lines, sets, json_written>>

\* lines 143-161
Store2DParam(r) ==
    IF r.err
    THEN /\ status' = "raised"
         /\ last' = Did("2d", "float")
         /\ UNCHANGED params
    ELSE /\ params' = Put(params, r.name, [t |-> "table", v |-> r.table])
         /\ last' = Did("2d", "none")
         /\ UNCHANGED status

\* lines 126-162
Param2D ==
    /\ At("2d")
    /\ i' = BlockEnd(raw_lines, i)
    /\ Store2DParam(Parse2D(Block(raw_lines, i)))
    /\ UNCHANGED <<raw_lines, sets, json_written>>

\* lines 164-165
Unknown ==
    /\ At("unknown")
    /\ i' = Advance(i)
    /\ last' = Did("unknown", "none")
    /\ UNCHANGED <<raw_lines, sets, params, status, json_written>>

\* lines 51, 167: the loop ends and parse_dat returns {"sets": ..., "params": ...}
Return ==
    /\ status = "run"
    /\ ~(i < n)
    /\ status' = "returned"
    /\ last' = Did("return", "none")
    /\ UNCHANGED <<raw_lines, i, sets, params, json_written>>

\* lines 171-172: payload = parse_dat(dat_path); json_path.write_text(...)
WriteJson ==
    /\ status = "returned"
    /\ ~json_written
    /\ json_written' = TRUE
    /\ UNCHANGED <<raw_lines, i, sets, params, status, last>>

Next ==
    \/ SkipBlank
    \/ Scalar
    \/ SetBlock
    \/ Param1D
    \/ Param2D
    \/ Unknown
    \/ Return
    \/ WriteJson

Spec == Init /\ [][Next]_vars


\* ------------------------------------------------------------------------
\* The reading of a statement that the properties below are stated in.  It
\* is given by positions in the physical lines, not by the parser's steps.
\* ------------------------------------------------------------------------
Blank == {SP, TAB}

\* the text of a physical line before its comment
CommentFree(ln) ==
    SubSeq(ln, 1, First({p \in 1..(Len(ln) + 1) :
                            p = Len(ln) + 1 \/ ln[p] = HASH}) - 1)

WordStarts(t, seps) ==
    {p \in 1..Len(t) : t[p] \notin seps /\ (p = 1 \/ t[p - 1] \in seps)}

WordEnd(t, p, seps) ==
    CHOOSE q \in p..Len(t) :
        /\ \A r \in p..q : t[r] \notin seps
        /\ q = Len(t) \/ t[q + 1] \in seps

Nth(S, k) == CHOOSE p \in S : Cardinality({q \in S : q < p}) = k - 1

\* the maximal runs of characters of t outside seps, in order
WordsOf(t, seps) ==
    [k \in 1..Cardinality(WordStarts(t, seps)) |->
        SubSeq(t, Nth(WordStarts(t, seps), k),
               WordEnd(t, Nth(WordStarts(t, seps), k), seps))]

\* the words of a data line, ";" counting as white space
DataWords(ln) == WordsOf(CommentFree(ln), Blank \cup {SEMI})

\* a ";" outside the comment of a physical line
HasSemi(ln) == \E p \in 1..Len(CommentFree(ln)) : ln[p] = SEMI

\* the physical lines the last loop iteration consumed
Stmt == SubSeq(raw_lines, last.start + 1, i)

IsBlock == last.kind \in {"set", "1d", "2d"}

\* the data lines of the block: every consumed line after the first
DataIdx == 1..(Len(Stmt) - 1)

Row(k) == DataWords(Stmt[k + 1])

\* the name and the mapping of the 1D statement just parsed
Head1D == CommentFree(Stmt[1])

RefName1D == WordsOf(Before(Head1D, ASSIGN), Blank)[2]

Mapping == Get(params, RefName1D).v

\* the pairs the parser accepts: the first two words of a data line
Pair1D == {k \in DataIdx : Len(Row(k)) >= 2}

\* the name, the columns and the table of the 2D statement just parsed
Head2D == CommentFree(Stmt[1])

RefName2D == WordsOf(Before(Head2D, <<COLON>>), Blank)[2]

RefCols == WordsOf(Before(After(Head2D, <<COLON>>), ASSIGN), Blank)

NCols == Len(RefCols)

Table == Get(params, RefName2D).v

\* the number of values a data row supplies after its row identifier
Supplied(k) == Len(Row(k)) - 1

\* the rows that supply at least / exactly / fewer than NCols values
RowsAtLeast == {k \in DataIdx : Row(k) # <<>> /\ Supplied(k) >= NCols}

RowsExact == {k \in DataIdx : Row(k) # <<>> /\ Supplied(k) = NCols}

RowsShort == {k \in DataIdx : Row(k) # <<>> /\ Supplied(k) < NCols}

\* the values of row k under the declared columns, in header order
RowItemsOf(k) ==
    [j \in 1..NCols |-> <<RefCols[j], PyFloat(Row(k)[1 + j]).val>>]

RowNumeric(k) == \A j \in 1..NCols : PyFloat(Row(k)[1 + j]).ok

\* no later kept row has the row identifier of row k
LastOfId(k) == \A q \in RowsAtLeast : q > k => Row(q)[1] # Row(k)[1]

ColsDistinct ==
    \A a, b \in 1..NCols : RefCols[a] = RefCols[b] => a = b

\* ------------------------------------------------------------------------
\* C2 (as claimed): in a 2D table block with n declared columns a data row is
\* kept only if it supplies exactly n values after its row identifier; a row
\* that supplies more than n is dropped like one that supplies fewer.
\* ------------------------------------------------------------------------
C2_OnlyExactRowsKept ==
    (last.kind = "2d" /\ last.err = "none") =>
        Keys(Table) = {Row(k)[1] : k \in RowsExact}

\* C2 (amended): a data row is kept exactly when it supplies at least n
\* values after its row identifier; of a row that supplies more than n the
\* first n values are stored under the declared columns and the rest is
\* ignored; only a row that supplies fewer than n values is dropped.
C2_RowsWithAtLeastNKept ==
    (last.kind = "2d" /\ last.err = "none") =>
        /\ RefName2D \in Keys(params)
        /\ Get(params, RefName2D).t = "table"
        /\ Keys(Table) = {Row(k)[1] : k \in RowsAtLeast}
        /\ \A k \in RowsAtLeast : LastOfId(k) =>
               \A j \in 1..NCols :
                   (\A q \in 1..NCols : q > j => RefCols[q] # RefCols[j]) =>
                       /\ RefCols[j] \in Keys(Get(Table, Row(k)[1]))
                       /\ Get(Get(Table, Row(k)[1]), RefCols[j])
                              = PyFloat(Row(k)[1 + j]).val

\* a row with more values than columns has just been stored, truncated
C2_Witness ==
    /\ last.kind = "2d"
    /\ last.err = "none"
    /\ \E k \in RowsAtLeast :
           /\ Supplied(k) > NCols
           /\ NCols >= 2
           /\ LastOfId(k)
           /\ Len(Get(Table, Row(k)[1])) = NCols

\* ------------------------------------------------------------------------
\* C3: in a 2D table block a data row that supplies fewer values than there
\* are declared columns raises no error and is absent from params[T], and
\* every row of the block with exactly n values, before or after it, is
\* present with its values keyed by the declared columns in header order.
\* (A row identifier that a later kept row repeats holds the later row.)
\* ------------------------------------------------------------------------
C3_ShortRowDroppedSiblingsKept ==
    last.kind = "2d" =>
        /\ (\A k \in RowsAtLeast : RowNumeric(k)) => last.err = "none"
        /\ last.err = "none" =>
               /\ \A k \in RowsShort :
                      Row(k)[1] \in Keys(Table) =>
                          \E q \in RowsAtLeast : Row(q)[1] = Row(k)[1]
               /\ \A k \in RowsExact : (LastOfId(k) /\ ColsDistinct) =>
                      /\ Row(k)[1] \in Keys(Table)
                      /\ Get(Table, Row(k)[1]) = RowItemsOf(k)

\* scenario C of the specification: H02 supplies one value for two columns
C3_Witness ==
    /\ raw_lines = <<L_t_head, L_t_h01, L_t_h02, L_t_h03>>
    /\ status = "returned"
    /\ Len(params) = 1
    /\ Keys(params[1][2].v) = {<<"H", "0", "1">>, <<"H", "0", "3">>}

\* ------------------------------------------------------------------------
\* The set statement just parsed, read line by line: the line that holds
\* ":=" (AssignLine), the line that holds ";" (the last one consumed), and
\* the words strictly between the two.
\* ------------------------------------------------------------------------
SetText(k) == CommentFree(Stmt[k])

AssignLine == First({k \in 1..Len(Stmt) : Contains(SetText(k), ASSIGN)})

\* the part of line k that lies after ":=" and before ";"
ElementText(k) ==
    Before(IF k = AssignLine THEN After(SetText(k), ASSIGN) ELSE SetText(k),
           <<SEMI>>)

ElementsOn(k) == IF k < AssignLine THEN <<>> ELSE WordsOf(ElementText(k), Blank)

RECURSIVE ElementsUpTo(_)
ElementsUpTo(k) ==
    IF k = 0 THEN <<>> ELSE ElementsUpTo(k - 1) \o ElementsOn(k)

\* the words before ":=", over the lines up to AssignLine
RECURSIVE PrefixUpTo(_)
PrefixUpTo(k) ==
    IF k = 0 THEN <<>>
    ELSE PrefixUpTo(k - 1)
           \o WordsOf(IF k = AssignLine THEN Before(SetText(k), ASSIGN)
                      ELSE SetText(k), Blank)

\* the consumed lines are one statement  set S := e1 ... en ;  whose
\* elements hold no ":=" of their own
WellFormedSet ==
    /\ AssignLine # 0
    /\ \A k \in AssignLine..Len(Stmt) : ~Contains(ElementText(k), ASSIGN)
    /\ HasSemi(Stmt[Len(Stmt)])
    /\ \A k \in 1..(Len(Stmt) - 1) : ~HasSemi(Stmt[k])
    /\ ~Contains(Before(SetText(AssignLine), ASSIGN), <<SEMI>>)
    /\ Len(PrefixUpTo(AssignLine)) = 2

\* ------------------------------------------------------------------------
\* C4: for every statement  set S := e1 ... en ;  sets[S] is the sequence
\* e1..en in input order, each token spelled as written, wherever the
\* physical line breaks fall inside the block.
\* ------------------------------------------------------------------------
C4_SetElementsInOrder ==
    (last.kind = "set" /\ WellFormedSet) =>
        /\ last.err = "none"
        /\ PrefixUpTo(AssignLine)[2] \in Keys(sets)
        /\ Get(sets, PrefixUpTo(AssignLine)[2]) = ElementsUpTo(Len(Stmt))

\* a set statement spread over three physical lines, elements on each
C4_Witness ==
    /\ last.kind = "set"
    /\ WellFormedSet
    /\ Len(Stmt) = 3
    /\ \A k \in 1..3 : ElementsOn(k) # <<>>
    /\ Len(Get(sets, <<"S">>)) = 4

\* ------------------------------------------------------------------------
\* C5: whenever a block is malformed (a set block without a ":=" token, a
\* value that float() rejects in a pair the 1D parser accepts or in a row the
\* 2D parser keeps) parse_dat ends by raising, also after earlier statements
\* were parsed, and dat_to_json writes nothing.
\* ------------------------------------------------------------------------
MalformedBlock ==
    \/ /\ last.kind = "set"
       /\ \A k \in 1..Len(Stmt) : ~Contains(SetText(k), ASSIGN)
    \/ /\ last.kind = "1d"
       /\ \E k \in Pair1D : ~PyFloat(Row(k)[2]).ok
    \/ /\ last.kind = "2d"
       /\ \E k \in RowsAtLeast : ~RowNumeric(k)

C5_MalformedBlockRaises ==
    /\ MalformedBlock => (status = "raised" /\ ~json_written)
    /\ status = "raised" => (IsBlock /\ last.err # "none" /\ ~json_written)
    /\ json_written => status = "returned"

\* a malformed set block after a statement that was parsed successfully
C5_Witness ==
    /\ MalformedBlock
    /\ last.kind = "set"
    /\ last.start > 0
    /\ Len(sets) + Len(params) > 0
    /\ status = "raised"

\* ------------------------------------------------------------------------
\* C7: in a 1D param block each key maps to one value; when a key occurs in
\* more than one accepted pair, params[P][key] is the value of the pair that
\* comes last in file order, and no error is raised.  (The accepted pairs
\* are the ones the parser takes: the first two words of each data line.)
\* ------------------------------------------------------------------------
C7_LastWriteWins ==
    last.kind = "1d" =>
        /\ (\A k \in Pair1D : PyFloat(Row(k)[2]).ok) => last.err = "none"
        /\ last.err = "none" =>
               /\ Get(params, RefName1D).t = "map"
               /\ Keys(Mapping) = {Row(k)[1] : k \in Pair1D}
               /\ Len(Mapping) = Cardinality(Keys(Mapping))
               /\ \A k \in Pair1D :
                      (\A q \in Pair1D : q > k => Row(q)[1] # Row(k)[1]) =>
                          Get(Mapping, Row(k)[1]) = PyFloat(Row(k)[2]).val

\* one key in two accepted pairs with different values
C7_Witness ==
    /\ last.kind = "1d"
    /\ last.err = "none"
    /\ \E k, q \in Pair1D :
           /\ k < q
           /\ Row(k)[1] = Row(q)[1]
           /\ PyFloat(Row(k)[2]).val # PyFloat(Row(q)[2]).val
           /\ Get(Mapping, Row(k)[1]) = PyFloat(Row(q)[2]).val

\* ------------------------------------------------------------------------
\* C1: a 1D statement  param P := k1 v1 k2 v2 ;  yields the mapping of its
\* pairs whether it is written on one physical line or with one pair per
\* line after the header; both layouts give {k1: v1, k2: v2}.
\* ------------------------------------------------------------------------
\* the words after ":=" on the first line
HeadWords == WordsOf(After(Head1D, ASSIGN), Blank \cup {SEMI})

OneLineLayout ==
    /\ Len(Stmt) = 1
    /\ HasSemi(Stmt[1])
    /\ Len(HeadWords) % 2 = 0

PairPerLineLayout ==
    /\ Len(Stmt) > 1
    /\ HeadWords = <<>>
    /\ HasSemi(Stmt[Len(Stmt)])
    /\ \A k \in DataIdx : Len(Row(k)) = 2

\* the (key, value) pairs of the statement, in file order
StmtPairs ==
    IF Len(Stmt) = 1
    THEN [p \in 1..(Len(HeadWords) \div 2) |->
             <<HeadWords[2 * p - 1], HeadWords[2 * p]>>]
    ELSE [k \in DataIdx |-> Row(k)]

C1_BothLayoutsSameMapping ==
    (/\ last.kind = "1d"
     /\ OneLineLayout \/ PairPerLineLayout
     /\ \A p \in 1..Len(StmtPairs) : PyFloat(StmtPairs[p][2]).ok) =>
        /\ last.err = "none"
        /\ Keys(Mapping) = {StmtPairs[p][1] : p \in 1..Len(StmtPairs)}
        /\ \A p \in 1..Len(StmtPairs) :
               (\A q \in 1..Len(StmtPairs) :
                    q > p => StmtPairs[q][1] # StmtPairs[p][1]) =>
                   Get(Mapping, StmtPairs[p][1]) = PyFloat(StmtPairs[p][2]).val

\* ------------------------------------------------------------------------
\* C6: a scalar statement  param X = V ;  registers params[X] as a number
\* when the trimmed right-hand side V is a numeric literal (_NUM_RE) and as
\* the exact trimmed string V otherwise, never raises, and consumes exactly
\* one line.
\* ------------------------------------------------------------------------
ScalarText == CommentFree(raw_lines[last.start + 1])

ScalarX == WordsOf(Before(ScalarText, <<EQ>>), Blank)[2]

ScalarV == Strip(Before(After(ScalarText, <<EQ>>), <<SEMI>>))

C6_NumberIffNumericLiteral ==
    last.kind = "scalar" =>
        /\ i = last.start + 1
        /\ status = "run"
        /\ ScalarX \in Keys(params)
        /\ IF NUM_RE(ScalarV)
           THEN /\ Get(params, ScalarX).t = "float"
                /\ Get(params, ScalarX).v = PyFloat(ScalarV).val
           ELSE Get(params, ScalarX) = [t |-> "str", v |-> ScalarV]

\* ------------------------------------------------------------------------
\* C8: in a 1D param block the words of every line after the first are
\* consumed two at a time as (key, value) pairs, so a data line holding m
\* complete pairs contributes all m keys to params[P]; a line with fewer
\* than two words contributes nothing and raises no error.
\* ------------------------------------------------------------------------
C8_AllPairsOfALineStored ==
    (last.kind = "1d" /\ last.err = "none") =>
        \A k \in DataIdx :
            \A p \in 1..(Len(Row(k)) \div 2) :
                Row(k)[2 * p - 1] \in Keys(Mapping)

\* ------------------------------------------------------------------------
\* C9: a ";" that occurs only inside a "#" comment does not terminate a
\* block: the block ends at the first line whose comment-stripped text holds
\* ";" (or at the end of the file).
\* ------------------------------------------------------------------------
C9_CommentSemiDoesNotTerminate ==
    IsBlock =>
        /\ \A k \in 1..(Len(Stmt) - 1) : ~HasSemi(Stmt[k])
        /\ HasSemi(Stmt[Len(Stmt)]) \/ i = n

\* ------------------------------------------------------------------------
\* C10: parse_dat is one forward pass: every iteration of the main loop
\* starts where the previous one ended and moves the cursor forward by at
\* least one line and never past the end; an unrecognized line moves it by
\* exactly one and leaves sets and params unchanged; once the cursor is at
\* the end the call returns, and after it has returned or raised the cursor
\* does not move.  The cursor is bounded by the number of lines, so the loop
\* makes at most that many iterations, also when the ";" of a block is
\* missing before the end of the file.
\* ------------------------------------------------------------------------
ForwardStep ==
    /\ (status = "run" /\ i < n) =>
           /\ i' > i
           /\ i' <= n
           /\ last'.start = i
           /\ status' \in {"run", "raised"}
           /\ last'.kind \in {"blank", "scalar", "unknown"} => i' = i + 1
           /\ last'.kind \in {"blank", "unknown"} =>
                  (sets' = sets /\ params' = params /\ status' = "run")
    /\ (status = "run" /\ ~(i < n)) => (status' = "returned" /\ i' = i)
    /\ status # "run" => (i' = i /\ status' = status)

C10_SingleForwardPass == [][ForwardStep]_vars

\* a block whose ";" is missing was read to the end of the file and the call
\* returned
C10_Witness ==
    /\ status = "returned"
    /\ i = n
    /\ n >= 3
    /\ Branch(StripComments(raw_lines[1])) = "1d"
    /\ \A k \in 1..n : ~Contains(raw_lines[k], <<SEMI>>)
    /\ Len(params) = 1
    /\ Len(params[1][2].v) >= 1

====
